---- MODULE Spec2Model ----
(***************************************************************************)
(* A model of the training driver scripts/training.py (training_loop):     *)
(* the iteration state machine, checkpoint save / resume over a persistent *)
(* checkpoints directory, the running-average loss windows, the            *)
(* evaluation aggregation and the substitution of optimizable inputs.      *)
(*                                                                         *)
(* Tensors are abstracted: the model weights, the optimizer and scheduler  *)
(* states and the input-store weights are represented by the number of     *)
(* optimizer steps that produced them (0 = freshly constructed).           *)
(***************************************************************************)
EXTENDS Integers, Sequences, FiniteSets, TLC

\* ------------------------------------------------------------------ bounds

\* Largest iteration budget and largest save/eval interval of a run.
MaxIter == 10
MaxInterval == 5
\* Iteration budget and intervals of the runs that are killed and resumed.
ResumeIter == 2
ResumeInterval == 2
\* Processes launched one after the other on the same run directory.
MaxRuns == 2
\* Files of the latest checkpoint damaged between two runs.
MaxFaults == 1
\* accel.num_processes and batch_size.
MaxProcs == 2
MaxBatch == 2
\* The window specification: capacity, pushes and loss values 0..MaxLoss.
MaxCap == 3
MaxPush == 4
MaxLoss == 1
\* The aggregation specification: validation batches per worker and loss
\* values 0..MaxValLoss.
MaxShard == 2
MaxValLoss == 2
\* The substitution specification: training frames, rows of a batch and
\* steps of the input optimizer.
NumFrames == 2
MaxRows == 2
MaxInputSteps == 2
\* The distributed specification: workers, iteration budget and intervals.
MaxWorkers == 2
WorkerIter == 1
WorkerInterval == 2
\* The leftover-checkpoint specification: iteration of the checkpoint found,
\* iteration budget and intervals of the run that finds it.
MaxLeftIt == 3
LeftIter == 2
LeftInterval == 2

\* ------------------------------------------------------------- data shapes

\* "no value" of load_iteration / load_from / last_ckpt_dir (Python None).
None == -1

\* Mixed: an input store that load_state_dict left partly overwritten.
Mixed == -2

FileStates == {"ok", "absent", "corrupt", "mismatch"}

\* A file torch.load cannot read raises (FileNotFoundError, UnpicklingError).
Unreadable(f) == f.st \in {"absent", "corrupt"}

AbsentFile == [st |-> "absent", it |-> 0, sample_count |-> 0, a |-> 0, b |-> 0]

\* model.pth: {'it', 'sample_count', 'epoch', 'model'}
ModelFile(i, sc, m) == [st |-> "ok", it |-> i, sample_count |-> sc, a |-> m, b |-> 0]

\* optimizer.pth / optimizer_input.pth: {'optimizer', 'scheduler'}
OptimFile(o, s) == [st |-> "ok", it |-> 0, sample_count |-> 0, a |-> o, b |-> s]

\* input.pth: input_params.state_dict()
InputFile(p) == [st |-> "ok", it |-> 0, sample_count |-> 0, a |-> p, b |-> 0]

EmptyDir ==
    [model_pth |-> AbsentFile, optimizer_pth |-> AbsentFile,
     input_pth |-> AbsentFile, optimizer_input_pth |-> AbsentFile]

FileNames == {"model_pth", "optimizer_pth", "input_pth", "optimizer_input_pth"}

Max(S) == CHOOSE x \in S : \A y \in S : y <= x

RECURSIVE SumSeq(_)
SumSeq(s) == IF s = <<>> THEN 0 ELSE Head(s) + SumSeq(Tail(s))

\* -------------------------------------------------------------------- state

VARIABLES
    \* configuration (the arguments of training_loop), fixed during a run
    iterations, save_it, eval_it, log_it, show_it, avg_loss_it,
    batch_size, num_processes, val_len,
    optimize_latent, optimize_expression, optimize_pose, optimize_camera,
    load_iteration, load_from,
    \* the process: position and local variables of training_loop
    pc, it, sample_count, model, optimizer, scheduler,
    input_params, optimizer_input, scheduler_input,
    last_ckpt_dir, avg_loss_dict, loss_dict, training, last_it, printed,
    \* outputs of the process: tensorboard events and console lines
    tb_train, shown, tb_validation,
    \* the checkpoints directory: iteration number -> files of iter_<k>
    ckpt,
    \* history: what the run saw and did, kept for the properties only
    runs, faults, seen, it_at_start, restored_sample_count, iters_done,
    saved_at, pushed,
    \* evaluation in progress: each worker's sums and batch count (lines
    \* 372-381) and, as history, the batches it has consumed
    val_loss_dict, val_batches,
    \* the input store's tables (frame id -> value), the batch of the current
    \* iteration (inputs and targets name tensors of the heap) and, as
    \* history, the batch as the dataset supplied it and the fixed_id passed
    input_tables, inputs, targets, heap, dataset_batch, fixed_id_arg,
    \* the workers of a distributed run, by process_index: the node each runs
    \* on, its position in training_loop, its it and its train/eval mode; the
    \* nodes whose output and checkpoints directories exist; who wrote which
    \* iter_<k>; and, as history, the collectives each worker has passed, now
    \* and when it ran the local-main setup
    placement, wpc, wit, wtraining, made_dirs, written, barriers,
    setup_barriers,
    \* the arguments each worker's train loader gave its sampler
    sampler

cfgVars == <<iterations, save_it, eval_it, log_it, show_it, avg_loss_it,
             batch_size, num_processes, val_len, optimize_latent,
             optimize_expression, optimize_pose, optimize_camera>>
loadVars == <<load_iteration, load_from>>
counterVars == <<it, sample_count>>
modelVars == <<model, optimizer, scheduler>>
inputVars == <<input_params, optimizer_input, scheduler_input>>
lossVars == <<avg_loss_dict, loss_dict, pushed>>
outVars == <<tb_train, shown, tb_validation>>
startVars == <<last_ckpt_dir, seen, it_at_start, restored_sample_count, printed>>
envVars == <<runs, faults>>
evalVars == <<val_loss_dict, val_batches>>
batchVars == <<inputs, targets, heap, dataset_batch, fixed_id_arg>>
workerVars == <<placement, wpc, wit, wtraining, made_dirs, written, barriers,
                setup_barriers, sampler>>

vars == <<cfgVars, loadVars, pc, counterVars, modelVars, inputVars, lossVars,
          training, last_it, outVars, ckpt, startVars, envVars, iters_done,
          saved_at, evalVars, input_tables, batchVars, workerVars>>

\* line 133
optimize_inputs ==
    optimize_latent \/ optimize_expression \/ optimize_pose \/ optimize_camera

OptimizeFlags(l, e, p, c) ==
    /\ optimize_latent = l
    /\ optimize_expression = e
    /\ optimize_pose = p
    /\ optimize_camera = c

LoopPcs == {"step", "log", "save", "eval", "evaluating", "incr"}

\* --------------------------------------------------- checkpoint resolution

\* find_latest_model_path(checkpoints_dir): the highest-numbered iter_<k>
\* directory under the checkpoints root, or nothing.
FindLatestModelPath(dirs) ==
    IF DOMAIN dirs = {} THEN None ELSE Max(DOMAIN dirs)

\* lines 183-186
ResolveCheckpoint(li, lf, dirs) ==
    IF li # None THEN li
    ELSE IF lf # None THEN lf
    ELSE FindLatestModelPath(dirs)

\* The files of iter_<k>; a directory that does not exist holds no file.
Dir(dirs, k) == IF k \in DOMAIN dirs THEN dirs[k] ELSE EmptyDir

\* A resume that survives a bad optimizer.pth (its load guarded like the
\* input store's).
RestoreRaisesLenientOptimizer(d, opt_in) ==
    \/ d.model_pth.st # "ok"
    \/ opt_in /\ Unreadable(d.input_pth)

\* lines 188-201: the loads that are not inside a try. torch.load raises on a
\* file it cannot read, load_state_dict on a state that does not fit.
RestoreRaises(d, opt_in) ==
    \/ d.model_pth.st # "ok"
    \/ d.optimizer_pth.st # "ok"
    \/ opt_in /\ Unreadable(d.input_pth)

\* lines 202-217: the states the two nested try blocks can leave behind.
\* Each is [input_params, optimizer_input, scheduler_input, printed].
InputRestoreOutcomes(d, fresh) ==
    IF d.input_pth.st = "mismatch"
    THEN \* load_state_dict raised: the table is untouched or partly copied
         {[p |-> x, o |-> fresh.o, s |-> fresh.s, msg |-> {"mismatched_input"}]
            : x \in {fresh.p, Mixed}}
    ELSE IF Unreadable(d.optimizer_input_pth)
    THEN \* torch.load of optimizer_input.pth raised inside the outer try
         {[p |-> d.input_pth.a, o |-> fresh.o, s |-> fresh.s,
           msg |-> {"mismatched_input"}]}
    ELSE IF d.optimizer_input_pth.st = "mismatch"
    THEN \* the inner try: the optimizer state may be in before the raise
         {[p |-> d.input_pth.a, o |-> x, s |-> fresh.s,
           msg |-> {"mismatched_optim_input"}]
            : x \in {fresh.o, d.optimizer_input_pth.a}}
    ELSE {[p |-> d.input_pth.a, o |-> d.optimizer_input_pth.a,
           s |-> d.optimizer_input_pth.b, msg |-> {}]}

\* The files a resume reads (lines 188, 196, 201, 209).
ReadFiles(opt_in) ==
    IF opt_in THEN FileNames ELSE {"model_pth", "optimizer_pth"}

FileStatus(d) == [f \in FileNames |-> d[f].st]

NotLoaded == [f \in FileNames |-> "none"]

\* ------------------------------------------------- running-average windows

\* A window that never evicts.
DequeAppendUnbounded(q, v, maxlen) == Append(q, v)

\* collections.deque(maxlen=n).append(v): the oldest value leaves a full deque.
DequeAppend(q, v, maxlen) ==
    IF maxlen = 0 THEN <<>>
    ELSE IF Len(q) >= maxlen THEN Append(Tail(q), v)
    ELSE Append(q, v)

\* lines 306-309: push every term of the gathered loss dict into its window,
\* creating the window on first sight.
UpdateWindows(avg, ld, maxlen) ==
    [k \in DOMAIN avg \cup DOMAIN ld |->
        IF k \in DOMAIN ld
        THEN DequeAppend(IF k \in DOMAIN avg THEN avg[k] ELSE <<>>, ld[k], maxlen)
        ELSE avg[k]]

\* np.mean of a window, kept as the exact fraction sum / count.
Mean(q) == [num |-> SumSeq(q), den |-> Len(q)]

\* lines 310-311: every term ever seen is reported as the mean of its window.
SmoothedLossDict(avg) == [k \in DOMAIN avg |-> Mean(avg[k])]

\* dict.pop(key)
Pop(d, key) == [k \in DOMAIN d \ {key} |-> d[k]]

\* ------------------------------------------------- evaluation aggregation

\* add_dict_to(val_loss_dict, loss_dict): accumulate the terms into the sums.
AddDictTo(acc, ld) ==
    [k \in DOMAIN acc \cup DOMAIN ld |->
        (IF k \in DOMAIN acc THEN acc[k] ELSE 0)
        + (IF k \in DOMAIN ld THEN ld[k] ELSE 0)]

\* lines 372-381 on one worker: the sums over its validation batches (a
\* sequence of loss dicts) and the number of batches.
RECURSIVE AccumulateBatches(_, _)
AccumulateBatches(acc, batches) ==
    IF batches = <<>> THEN acc
    ELSE AccumulateBatches(AddDictTo(acc, Head(batches)), Tail(batches))

WorkerValLossDict(batches) ==
    [sums |-> AccumulateBatches(<<>>, batches), num_batches |-> Len(batches)]

\* lines 387-388: accel.gather stacks every worker's entry, in rank order.
Gather(perWorker) ==
    [sums |-> [k \in DOMAIN perWorker[1].sums |->
                  [w \in DOMAIN perWorker |-> perWorker[w].sums[k]]],
     num_batches |-> [w \in DOMAIN perWorker |-> perWorker[w].num_batches]]

\* An average over the coordinating worker's own batch count.
ValidationMeansLocalCount(gathered) ==
    [k \in DOMAIN gathered.sums |->
        [num |-> SumSeq(gathered.sums[k]), den |-> gathered.num_batches[1]]]

\* lines 392-394: the sum over the workers of each term, divided by the sum
\* over the workers of the batch counts.
ValidationMeans(gathered) ==
    LET val_num_batches == SumSeq(gathered.num_batches)
    IN  [k \in DOMAIN gathered.sums |->
            [num |-> SumSeq(gathered.sums[k]), den |-> val_num_batches]]

\* ------------------------------------------- the loss collaborator (stub)

\* loss(outputs, targets, it) of a training step and of validation batch b on
\* worker w. The loss is an external collaborator: the controller
\* specifications fix one trajectory of it, the window and aggregation
\* specifications enumerate its values.
TrainLoss(i) == ("loss" :> (i % 3))

ValLoss(w, b, i) == ("loss" :> ((w + b + i) % 3))

\* The validation batches of worker w: its shard of len(val_dataset) / W
\* batches of size 1 (lines 117-123).
ValShard(w, i) ==
    [b \in 1..(val_len \div num_processes) |-> ValLoss(w, b, i)]

\* ------------------------------------------------------------ initial state

\* The arguments of training_loop of the runs that are killed and resumed.
\* The logging intervals and the window length only shape the process's
\* output, so these runs take them at one value each.
ResumeConfig ==
    /\ iterations \in 0..ResumeIter
    /\ save_it \in 1..ResumeInterval
    /\ eval_it = 2
    /\ log_it = 1
    /\ show_it = 2
    /\ avg_loss_it = 2
    /\ \E b \in 1..MaxBatch, w \in 1..MaxProcs :
          /\ b = 1 \/ w = 1
          /\ batch_size = b
          /\ num_processes = w
    /\ \E b \in BOOLEAN : OptimizeFlags(b, b, b, b)
    \* line 117: len(val_dataset) is a multiple of the number of processes
    /\ val_len = num_processes

\* The arguments of training_loop of the runs started on an empty directory.
FreshConfig ==
    /\ iterations \in 0..MaxIter
    /\ save_it \in 1..MaxInterval
    /\ eval_it \in 1..MaxInterval
    /\ \E p \in {<<1, 2>>, <<2, 1>>} : log_it = p[1] /\ show_it = p[2]
    /\ avg_loss_it = 2
    /\ batch_size = 1
    /\ num_processes \in 1..MaxProcs
    /\ \E b \in BOOLEAN : OptimizeFlags(b, b, b, b)
    /\ val_len \in {0, num_processes}

\* lines 74-180: a process that has built its datasets, model, input store,
\* optimizers and schedulers and has not yet resolved a checkpoint.
ProcessBuilt ==
    /\ pc = "start"
    /\ it = 0 /\ sample_count = 0
    /\ model = 0 /\ optimizer = 0 /\ scheduler = 0
    /\ input_params = 0 /\ optimizer_input = 0 /\ scheduler_input = 0
    /\ last_ckpt_dir = None
    /\ avg_loss_dict = <<>> /\ loss_dict = <<>> /\ pushed = <<>>
    /\ training = TRUE /\ last_it = 0 /\ printed = {}
    /\ tb_train = {} /\ shown = {} /\ tb_validation = <<>>
    /\ seen = NotLoaded /\ it_at_start = 0 /\ restored_sample_count = 0
    /\ iters_done = 0

NoBatch ==
    /\ inputs = <<>> /\ targets = <<>> /\ heap = <<>> /\ dataset_batch = <<>>
    /\ fixed_id_arg = None

\* The specifications of one process's view do not follow the other workers.
NoWorkers ==
    /\ placement = <<>> /\ wpc = <<>> /\ wit = <<>> /\ wtraining = <<>>
    /\ made_dirs = {} /\ written = <<>> /\ barriers = <<>>
    /\ setup_barriers = <<>> /\ sampler = <<>>

HistoryEmpty ==
    /\ ckpt = <<>> /\ runs = 1 /\ faults = 0
    /\ saved_at = <<>>
    /\ val_loss_dict = <<>> /\ val_batches = <<>>
    /\ input_tables = <<>>
    /\ NoBatch
    /\ NoWorkers

Init ==
    /\ ResumeConfig
    /\ load_iteration = None /\ load_from = None
    /\ ProcessBuilt
    /\ HistoryEmpty

\* -------------------------------------------------- start of a run: resume

\* lines 220-221 and 273-278: no checkpoint directory was resolved.
StartFresh ==
    /\ pc = "start"
    /\ ResolveCheckpoint(load_iteration, load_from, ckpt) = None
    /\ it' = 0 /\ sample_count' = 0
    /\ last_ckpt_dir' = None /\ seen' = NotLoaded
    /\ it_at_start' = 0 /\ restored_sample_count' = 0
    /\ printed' = {}
    /\ last_it' = 0 /\ training' = TRUE
    /\ pc' = "step"
    /\ UNCHANGED <<cfgVars, workerVars, evalVars, input_tables, batchVars, loadVars, modelVars, inputVars, lossVars, outVars,
                   ckpt, envVars, iters_done, saved_at>>

\* lines 187-201: a load outside the try blocks raises and the run ends.
ResumeAbort ==
    /\ pc = "start"
    /\ LET k == ResolveCheckpoint(load_iteration, load_from, ckpt)
           d == Dir(ckpt, k)
       IN  /\ k # None
           /\ RestoreRaises(d, optimize_inputs)
           /\ last_ckpt_dir' = k
           /\ seen' = FileStatus(d)
    /\ pc' = "aborted"
    /\ UNCHANGED <<cfgVars, workerVars, evalVars, input_tables, batchVars, loadVars, counterVars, modelVars, inputVars,
                   lossVars, training, last_it, outVars, ckpt, envVars,
                   it_at_start, restored_sample_count, printed, iters_done,
                   saved_at>>

\* lines 187-219 and 273-278: the checkpoint is restored.
ResumeLoad ==
    /\ pc = "start"
    /\ LET k == ResolveCheckpoint(load_iteration, load_from, ckpt)
           d == Dir(ckpt, k)
       IN  /\ k # None
           /\ ~RestoreRaises(d, optimize_inputs)
           /\ last_ckpt_dir' = k
           /\ seen' = FileStatus(d)
           /\ model' = d.model_pth.a
           /\ it' = d.model_pth.it
           /\ sample_count' = d.model_pth.sample_count
           /\ it_at_start' = d.model_pth.it
           /\ restored_sample_count' = d.model_pth.sample_count
           /\ last_it' = d.model_pth.it
           /\ optimizer' = d.optimizer_pth.a
           /\ scheduler' = d.optimizer_pth.b
           /\ IF optimize_inputs
              THEN \E r \in InputRestoreOutcomes(d,
                               [p |-> input_params, o |-> optimizer_input,
                                s |-> scheduler_input]) :
                      /\ input_params' = r.p
                      /\ optimizer_input' = r.o
                      /\ scheduler_input' = r.s
                      /\ printed' = r.msg \cup {"loaded_from"}
              ELSE /\ UNCHANGED inputVars
                   /\ printed' = {"loaded_from"}
    /\ training' = TRUE
    /\ pc' = "step"
    /\ UNCHANGED <<cfgVars, workerVars, evalVars, input_tables, batchVars, loadVars, lossVars, outVars, ckpt, envVars,
                   iters_done, saved_at>>

\* ------------------------------------------------------- one loop iteration

\* lines 304-311: the gathered loss dict ld goes into the windows and is
\* overwritten by the smoothed values; pushed remembers every value pushed.
RunningAverage(ld) ==
    /\ avg_loss_dict' = UpdateWindows(avg_loss_dict, ld, avg_loss_it)
    /\ loss_dict' = SmoothedLossDict(avg_loss_dict')
    /\ pushed' = [k \in DOMAIN pushed \cup DOMAIN ld |->
                     IF k \in DOMAIN ld
                     THEN Append(IF k \in DOMAIN pushed THEN pushed[k]
                                 ELSE <<>>, ld[k])
                     ELSE pushed[k]]

\* The trainable state of the process.
Trainable ==
    [model |-> model, optimizer |-> optimizer, scheduler |-> scheduler,
     input_params |-> input_params, optimizer_input |-> optimizer_input,
     scheduler_input |-> scheduler_input]

\* lines 126-180: the state as constructed.
FreshTrainable ==
    [model |-> 0, optimizer |-> 0, scheduler |-> 0,
     input_params |-> 0, optimizer_input |-> 0, scheduler_input |-> 0]

\* lines 298-302: optimizer.step(), scheduler.step() and, with
\* optimize_inputs, optimizer_input.step(), scheduler_input.step().
OptimStep(t, opt_in) ==
    [model |-> t.model + 1,
     optimizer |-> t.optimizer + 1,
     scheduler |-> t.scheduler + 1,
     input_params |-> IF ~opt_in \/ t.input_params = Mixed THEN t.input_params
                      ELSE t.input_params + 1,
     optimizer_input |-> IF opt_in THEN t.optimizer_input + 1
                         ELSE t.optimizer_input,
     scheduler_input |-> IF opt_in THEN t.scheduler_input + 1
                         ELSE t.scheduler_input]

\* lines 282-311: forward, backward, the optimizer and scheduler steps and the
\* running-average update of one consumed batch.
TrainStep ==
    /\ pc = "step"
    /\ LET t == OptimStep(Trainable, optimize_inputs)
       IN  /\ model' = t.model
           /\ optimizer' = t.optimizer
           /\ scheduler' = t.scheduler
           /\ input_params' = t.input_params
           /\ optimizer_input' = t.optimizer_input
           /\ scheduler_input' = t.scheduler_input
    /\ RunningAverage(TrainLoss(it))
    /\ iters_done' = iters_done + 1
    /\ pc' = "log"
    /\ UNCHANGED <<cfgVars, workerVars, evalVars, input_tables, batchVars, loadVars, counterVars, training, last_it, outVars,
                   ckpt, startVars, envVars, saved_at>>

\* A save condition that skips iteration 0.
SaveDueSkipZero(i) == i % save_it = 0 /\ i > 0

\* line 314 / line 316 / line 342 / line 366: the periodic conditions.
LogDue(i) == i % log_it = 0

\* A console line tied to the metric logging interval.
ShowDueWhenLogged(i) == i % log_it = 0

ShowDue(i) == i % show_it = 0

SaveDue(i) == i % save_it = 0

EvalDue(i) == i % eval_it = 0 /\ val_len > 0

\* lines 313-339: the tensorboard events and the console line.
Log ==
    /\ pc = "log"
    /\ tb_train' = IF LogDue(it) THEN tb_train \cup {it} ELSE tb_train
    /\ IF ShowDue(it)
       THEN /\ shown' = shown \cup {it}
            /\ loss_dict' = Pop(loss_dict, "loss")
            /\ last_it' = it
       ELSE UNCHANGED <<shown, loss_dict, last_it>>
    /\ pc' = "save"
    /\ UNCHANGED <<cfgVars, workerVars, evalVars, input_tables, batchVars, loadVars, counterVars, modelVars, inputVars,
                   avg_loss_dict, pushed, training, tb_validation, ckpt,
                   startVars, envVars, iters_done, saved_at>>

\* A save that records the iteration the next step will have.
CheckpointFilesNextIt(old) ==
    [model_pth |-> ModelFile(it + 1, sample_count + batch_size * num_processes,
                             model),
     optimizer_pth |-> OptimFile(optimizer, scheduler),
     input_pth |-> IF optimize_inputs THEN InputFile(input_params)
                   ELSE old.input_pth,
     optimizer_input_pth |->
        IF optimize_inputs THEN OptimFile(optimizer_input, scheduler_input)
        ELSE old.optimizer_input_pth]

\* lines 345-362: the files written into iter_<it>; old is what the
\* directory held before (ensure_dir keeps an existing directory).
CheckpointFiles(old) ==
    [model_pth |-> ModelFile(it, sample_count, model),
     optimizer_pth |-> OptimFile(optimizer, scheduler),
     input_pth |-> IF optimize_inputs THEN InputFile(input_params)
                   ELSE old.input_pth,
     optimizer_input_pth |->
        IF optimize_inputs THEN OptimFile(optimizer_input, scheduler_input)
        ELSE old.optimizer_input_pth]

\* lines 342-363: checkpoint saving.
Save ==
    /\ pc = "save"
    /\ IF SaveDue(it)
       THEN /\ ckpt' = (it :> CheckpointFiles(Dir(ckpt, it))) @@ ckpt
            /\ saved_at' = (it :> [it |-> it, sample_count |-> sample_count])
                           @@ saved_at
       ELSE UNCHANGED <<ckpt, saved_at>>
    /\ pc' = "eval"
    /\ UNCHANGED <<cfgVars, workerVars, evalVars, input_tables, batchVars, loadVars, counterVars, modelVars, inputVars,
                   lossVars, training, last_it, outVars, startVars, envVars,
                   iters_done>>

\* line 366: no evaluation on this iteration.
EvalSkip ==
    /\ pc = "eval"
    /\ ~EvalDue(it)
    /\ pc' = "incr"
    /\ UNCHANGED <<cfgVars, workerVars, evalVars, input_tables, batchVars, loadVars, counterVars, modelVars, inputVars,
                   lossVars, training, last_it, outVars, ckpt, startVars,
                   envVars, iters_done, saved_at>>

\* An evaluation that starts by emptying the running-average windows.
EvalEnterClearingWindows ==
    /\ pc = "eval"
    /\ EvalDue(it)
    /\ training' = FALSE
    /\ avg_loss_dict' = <<>>
    /\ pc' = "evaluating"
    /\ UNCHANGED <<cfgVars, workerVars, evalVars, input_tables, batchVars,
                   loadVars, counterVars, modelVars, inputVars, loss_dict,
                   pushed, last_it, outVars, ckpt, startVars, envVars,
                   iters_done, saved_at>>

\* lines 366-370: evaluation starts, model.eval().
EvalEnter ==
    /\ pc = "eval"
    /\ EvalDue(it)
    /\ training' = FALSE
    /\ pc' = "evaluating"
    /\ UNCHANGED <<cfgVars, workerVars, evalVars, input_tables, batchVars, loadVars, counterVars, modelVars, inputVars,
                   lossVars, last_it, outVars, ckpt, startVars, envVars,
                   iters_done, saved_at>>

\* An evaluation that leaves the model in inference mode.
ModeLeftInEval == FALSE

\* lines 409-411: model.train() and input_params.train()
ModeAfterEvaluation == TRUE

\* lines 372-411: every worker runs its shard, the sums are gathered, the
\* means logged and the model put back in training mode.
EvalFinish ==
    /\ pc = "evaluating"
    /\ LET perWorker == [w \in 1..num_processes |->
                            WorkerValLossDict(ValShard(w, it))]
           shard == ValShard(1, it)
       IN  /\ tb_validation' =
                 (it :> ValidationMeans(Gather(perWorker))) @@ tb_validation
           \* line 379 rebinds loss_dict to the last validation batch's terms
           /\ loss_dict' = [k \in DOMAIN shard[Len(shard)] |->
                               Mean(<<shard[Len(shard)][k]>>)]
    /\ training' = ModeAfterEvaluation
    /\ pc' = "incr"
    /\ UNCHANGED <<cfgVars, workerVars, evalVars, input_tables, batchVars, loadVars, counterVars, modelVars, inputVars,
                   avg_loss_dict, pushed, last_it, tb_train, shown, ckpt,
                   startVars, envVars, iters_done, saved_at>>

\* A sample counter that forgets the other processes.
NextSampleCountLocal(sc) == sc + batch_size

\* A loop that stops on reaching the budget.
BudgetReached(i) == i >= iterations

\* line 413 / line 414 / line 415
NextIt(i) == i + 1

NextSampleCount(sc) == sc + batch_size * num_processes

BudgetExceeded(i) == i > iterations

\* lines 413-416: the counters advance and the loop ends on an exceeded budget.
Incr ==
    /\ pc = "incr"
    /\ it' = NextIt(it)
    /\ sample_count' = NextSampleCount(sample_count)
    /\ pc' = IF BudgetExceeded(it') THEN "terminated" ELSE "step"
    /\ UNCHANGED <<cfgVars, workerVars, evalVars, input_tables, batchVars, loadVars, modelVars, inputVars, lossVars, training,
                   last_it, outVars, ckpt, startVars, envVars, iters_done,
                   saved_at>>

\* ---------------------------------------------------------- the environment

\* How the next process is told to resume: nothing (latest), load_iteration or
\* load_from naming a directory.
LoadChoices(dirs) ==
    {[li |-> None, lf |-> None]}
    \cup {[li |-> k, lf |-> None] : k \in DOMAIN dirs \cup {1}}
    \cup {[li |-> None, lf |-> k] : k \in {j \in DOMAIN dirs : j = 0}}

\* The process ends (it terminated, aborted or was killed) and training_loop
\* is launched again on the same run directory with the same configuration.
Restart ==
    /\ pc # "start"
    /\ runs < MaxRuns
    /\ runs' = runs + 1
    /\ \E c \in LoadChoices(ckpt) :
          /\ load_iteration' = c.li
          /\ load_from' = c.lf
    \* the new process builds its objects afresh (ProcessBuilt)
    /\ pc' = "start"
    /\ it' = 0 /\ sample_count' = 0
    /\ model' = 0 /\ optimizer' = 0 /\ scheduler' = 0
    /\ input_params' = 0 /\ optimizer_input' = 0 /\ scheduler_input' = 0
    /\ last_ckpt_dir' = None
    /\ avg_loss_dict' = <<>> /\ loss_dict' = <<>> /\ pushed' = <<>>
    /\ training' = TRUE /\ last_it' = 0 /\ printed' = {}
    /\ tb_train' = {} /\ shown' = {} /\ tb_validation' = <<>>
    /\ seen' = NotLoaded /\ it_at_start' = 0 /\ restored_sample_count' = 0
    /\ iters_done' = 0
    /\ UNCHANGED <<cfgVars, workerVars, evalVars, input_tables, batchVars, ckpt, faults, saved_at>>

\* Before the process reads it, a file of the checkpoint it will resolve is
\* lost, truncated or replaced by one of another shape.
Damage ==
    /\ pc = "start"
    /\ faults < MaxFaults
    /\ LET k == ResolveCheckpoint(load_iteration, load_from, ckpt)
       IN  /\ k \in DOMAIN ckpt
           /\ \E f \in ReadFiles(optimize_inputs), st \in FileStates \ {"ok"} :
                 /\ ckpt[k][f].st = "ok"
                 /\ ckpt' = [ckpt EXCEPT ![k][f].st = st]
    /\ faults' = faults + 1
    /\ UNCHANGED <<cfgVars, workerVars, evalVars, input_tables, batchVars, loadVars, pc, counterVars, modelVars, inputVars,
                   lossVars, training, last_it, outVars, startVars, runs,
                   iters_done, saved_at>>

\* --------------------------------------------------------- specifications

RunNext ==
    \/ StartFresh
    \/ TrainStep
    \/ Log
    \/ Save
    \/ EvalSkip
    \/ EvalEnter
    \/ EvalFinish
    \/ Incr

Next ==
    \/ RunNext
    \/ ResumeAbort
    \/ ResumeLoad
    \/ Restart
    \/ Damage

\* Runs of training_loop on one run directory, killed and resumed.
Spec == Init /\ [][Next]_vars

\* One run started on an empty checkpoints directory and left to run: the
\* interpreter executes the loop body to its end.
InitFresh ==
    /\ FreshConfig
    /\ load_iteration = None /\ load_from = None
    /\ ProcessBuilt
    /\ HistoryEmpty

FreshSpec == InitFresh /\ [][RunNext]_vars /\ WF_vars(RunNext)

\* The arguments of training_loop of the specifications that exercise one
\* part of the loop body on enumerated inputs.
UnitConfig ==
    /\ iterations = 0 /\ save_it = 1 /\ eval_it = 1
    /\ log_it = 1 /\ show_it = 1
    /\ batch_size = 1
    /\ OptimizeFlags(FALSE, FALSE, FALSE, FALSE)
    /\ load_iteration = None /\ load_from = None

\* The loss dicts a step can gather: the total alone, or with a term that
\* appears on some iterations only.
GatheredLossDicts ==
    UNION {[K -> 0..MaxLoss] : K \in {{"loss"}, {"loss", "loss_rgb"}}}

WindowInit ==
    /\ UnitConfig
    /\ avg_loss_it \in 1..MaxCap
    /\ num_processes = 1 /\ val_len = 0
    /\ ProcessBuilt
    /\ HistoryEmpty

\* lines 304-311 on any gathered loss dict.
WindowPush ==
    /\ \A k \in DOMAIN pushed : Len(pushed[k]) < MaxPush
    /\ \E ld \in GatheredLossDicts : RunningAverage(ld)
    /\ UNCHANGED <<cfgVars, workerVars, evalVars, input_tables, batchVars, loadVars, pc, counterVars, modelVars, inputVars,
                   training, last_it, outVars, ckpt, startVars, envVars,
                   iters_done, saved_at>>

\* The running-average update of the loop body, on every sequence of losses.
WindowSpec == WindowInit /\ [][WindowPush]_vars

\* The loss terms of a validation batch: every batch reports the same terms.
ValLossDicts ==
    {("loss" :> v) @@ ("loss_rgb" :> MaxValLoss - v) : v \in 0..MaxValLoss}

EvalInit ==
    /\ UnitConfig
    /\ avg_loss_it = 1
    /\ num_processes \in 1..MaxProcs
    \* line 117: every worker's shard has val_len / num_processes batches
    /\ \E n \in 1..MaxShard : val_len = n * num_processes
    /\ pc = "evaluating"
    /\ it = 0 /\ sample_count = 0
    /\ model = 1 /\ optimizer = 1 /\ scheduler = 1
    /\ input_params = 0 /\ optimizer_input = 0 /\ scheduler_input = 0
    /\ last_ckpt_dir = None
    /\ avg_loss_dict = <<>> /\ loss_dict = <<>> /\ pushed = <<>>
    /\ training = FALSE /\ last_it = 0 /\ printed = {}
    /\ tb_train = {} /\ shown = {} /\ tb_validation = <<>>
    /\ seen = NotLoaded /\ it_at_start = 0 /\ restored_sample_count = 0
    /\ iters_done = 1
    /\ ckpt = <<>> /\ runs = 1 /\ faults = 0 /\ saved_at = <<>>
    \* lines 372-373 on every worker
    /\ val_loss_dict = [w \in 1..num_processes |->
                           [sums |-> <<>>, num_batches |-> 0]]
    /\ val_batches = [w \in 1..num_processes |-> <<>>]
    /\ input_tables = <<>>
    /\ NoBatch
    /\ NoWorkers

\* lines 374-381: worker w consumes the next batch of its shard.
EvalBatch ==
    /\ pc = "evaluating"
    /\ \E w \in 1..num_processes, ld \in ValLossDicts :
          /\ val_loss_dict[w].num_batches < val_len \div num_processes
          /\ val_loss_dict' =
                [val_loss_dict EXCEPT ![w] =
                    [sums |-> AddDictTo(@.sums, ld),
                     num_batches |-> @.num_batches + 1]]
          /\ val_batches' = [val_batches EXCEPT ![w] = Append(@, ld)]
    /\ UNCHANGED <<cfgVars, workerVars, input_tables, batchVars, loadVars, pc,
                   counterVars, modelVars, inputVars, lossVars, training,
                   last_it, outVars, ckpt, startVars, envVars, iters_done,
                   saved_at>>

\* lines 386-411: the sums are gathered and averaged, the means logged.
EvalGather ==
    /\ pc = "evaluating"
    /\ \A w \in 1..num_processes :
          val_loss_dict[w].num_batches = val_len \div num_processes
    /\ tb_validation' =
          (it :> ValidationMeans(Gather(val_loss_dict))) @@ tb_validation
    /\ training' = TRUE
    /\ pc' = "incr"
    /\ UNCHANGED <<cfgVars, workerVars, evalVars, input_tables, batchVars, loadVars,
                   counterVars, modelVars, inputVars, lossVars, last_it,
                   tb_train, shown, ckpt, startVars, envVars, iters_done,
                   saved_at>>

EvalNext ==
    \/ EvalBatch
    \/ EvalGather

\* One evaluation pass of W workers, on every assignment of batch losses.
EvalSpec == EvalInit /\ [][EvalNext]_vars

\* ------------------------------------------------------ input substitution

Frames == 0..(NumFrames - 1)

\* The tracked parameters of frame f as the dataset supplies them
\* (get_expression_params, get_pose_params, get_extrinsic_params and the
\* fields of a batch): distinct per frame and per field.
DatasetExpression(f) == 10 + f

DatasetPose(f) == 20 + f

\* A 4x4 extrinsic: its translation column [:3, 3] and the rest.
DatasetExtrinsic(f) == [rot |-> 30 + f, trans |-> 40 + f]

\* lines 135-157: the tables of the input store, one row per training frame,
\* built for the enabled flags only.
InitialTables(l, e, p, c) ==
    (IF l THEN ("frame_latent" :> [f \in Frames |-> 0]) ELSE <<>>) @@
    (IF e THEN ("expression" :> [f \in Frames |-> DatasetExpression(f)])
          ELSE <<>>) @@
    (IF p THEN ("pose" :> [f \in Frames |-> DatasetPose(f)]) ELSE <<>>) @@
    (IF c THEN ("cam_trans" :> [f \in Frames |-> DatasetExtrinsic(f).trans])
          ELSE <<>>)

\* nn.Embedding.__call__: a new tensor with one table row per id.
Lookup(table, ids) == [r \in DOMAIN ids |-> table[ids[r]]]

\* torch.full_like
FullLike(t, v) == [r \in DOMAIN t |-> v]

\* Python truth of fixed_id (line 232): None and 0 are both false.
Truthy(x) == x # None /\ x # 0

\* A batch as the train loader yields it: inputs and targets are dicts of
\* references to freshly collated tensors.
LoadBatch(ids) ==
    [heap |-> <<ids,
                [r \in DOMAIN ids |-> DatasetExpression(ids[r])],
                [r \in DOMAIN ids |-> DatasetPose(ids[r])],
                [r \in DOMAIN ids |-> DatasetExtrinsic(ids[r])],
                [r \in DOMAIN ids |-> 50 + ids[r]]>>,
     inputs |-> [id |-> 1, expression |-> 2, pose |-> 3, extrinsic |-> 4],
     targets |-> [rgb |-> 5]]

\* Binding key k of dict d to a newly allocated tensor t.
BindNew(b, which, k, t) ==
    LET a == Len(b.heap) + 1
    IN  IF which = "inputs"
        THEN [b EXCEPT !.heap = Append(@, t), !.inputs = (k :> a) @@ @]
        ELSE [b EXCEPT !.heap = Append(@, t), !.targets = (k :> a) @@ @]

\* lines 230-243
ReplaceOptimizableInputs(b, fixed_id) ==
    LET ids0 == b.heap[b.inputs.id]
        ids == IF Truthy(fixed_id) THEN FullLike(ids0, fixed_id) ELSE ids0
        b1 == IF optimize_latent
              THEN BindNew(b, "inputs", "frame_latent",
                           Lookup(input_tables.frame_latent, ids))
              ELSE b
        \* lines 236-237: targets gets the reference inputs held, inputs a
        \* new tensor
        b2 == IF optimize_expression
              THEN BindNew([b1 EXCEPT !.targets =
                               ("expression" :> b1.inputs.expression) @@ @],
                           "inputs", "expression",
                           Lookup(input_tables.expression, ids))
              ELSE b1
        b3 == IF optimize_pose
              THEN BindNew([b2 EXCEPT !.targets =
                               ("pose" :> b2.inputs.pose) @@ @],
                           "inputs", "pose",
                           Lookup(input_tables.pose, ids))
              ELSE b2
        \* lines 242-243: targets gets the reference inputs holds, and the
        \* tensor it names is then written in place
        b4 == IF optimize_camera
              THEN [b3 EXCEPT
                      !.targets = ("extrinsic" :> b3.inputs.extrinsic) @@ @,
                      !.heap[b3.inputs.extrinsic] =
                          [r \in DOMAIN @ |->
                              [@[r] EXCEPT !.trans =
                                  input_tables.cam_trans[ids[r]]]]]
              ELSE b3
    IN  b4

\* The batches the train loader can yield: frame ids in any order.
BatchIds == UNION {[1..n -> Frames] : n \in 1..MaxRows}

SubstInit ==
    /\ iterations = 0 /\ save_it = 1 /\ eval_it = 1
    /\ log_it = 1 /\ show_it = 1 /\ avg_loss_it = 1
    /\ batch_size = 1 /\ num_processes = 1 /\ val_len = 0
    /\ \E l, e, p, c \in BOOLEAN :
          /\ l \/ e \/ p \/ c
          /\ OptimizeFlags(l, e, p, c)
          /\ input_tables = InitialTables(l, e, p, c)
    /\ load_iteration = None /\ load_from = None
    /\ pc = "step"
    /\ it = 0 /\ sample_count = 0
    /\ model = 0 /\ optimizer = 0 /\ scheduler = 0
    /\ input_params = 0 /\ optimizer_input = 0 /\ scheduler_input = 0
    /\ last_ckpt_dir = None
    /\ avg_loss_dict = <<>> /\ loss_dict = <<>> /\ pushed = <<>>
    /\ training = TRUE /\ last_it = 0 /\ printed = {}
    /\ tb_train = {} /\ shown = {} /\ tb_validation = <<>>
    /\ seen = NotLoaded /\ it_at_start = 0 /\ restored_sample_count = 0
    /\ iters_done = 0
    /\ ckpt = <<>> /\ runs = 1 /\ faults = 0 /\ saved_at = <<>>
    /\ val_loss_dict = <<>> /\ val_batches = <<>>
    /\ NoBatch
    /\ NoWorkers

\* The batch of ids goes through replace_optimizable_inputs with fixed_id f.
SubstituteBatch(ids, f) ==
    LET b == ReplaceOptimizableInputs(LoadBatch(ids), f)
    IN  /\ heap' = b.heap
        /\ inputs' = b.inputs
        /\ targets' = b.targets
        /\ fixed_id_arg' = f
        /\ dataset_batch' =
              [id |-> ids,
               expression |-> LoadBatch(ids).heap[2],
               pose |-> LoadBatch(ids).heap[3],
               extrinsic |-> LoadBatch(ids).heap[4]]

\* lines 281-288: the loader yields a batch and the loop replaces its
\* optimizable inputs; no caller passes fixed_id.
SubstForward ==
    /\ pc = "step"
    /\ input_params < MaxInputSteps
    /\ \E ids \in BatchIds : SubstituteBatch(ids, None)
    /\ pc' = "backward"
    /\ UNCHANGED <<cfgVars, workerVars, loadVars, counterVars, modelVars,
                   inputVars, lossVars, training, last_it, outVars, ckpt,
                   startVars, envVars, iters_done, saved_at, evalVars,
                   input_tables>>

\* lines 230-243 called with a frame id as fixed_id.
FixedIdForward ==
    /\ pc = "step"
    /\ input_params < MaxInputSteps
    /\ \E ids \in BatchIds, f \in Frames : SubstituteBatch(ids, f)
    /\ pc' = "backward"
    /\ UNCHANGED <<cfgVars, workerVars, loadVars, counterVars, modelVars,
                   inputVars, lossVars, training, last_it, outVars, ckpt,
                   startVars, envVars, iters_done, saved_at, evalVars,
                   input_tables>>

\* lines 293-302: the backward pass and the optimizer steps; the rows of the
\* input store that the batch looked up receive a gradient and move.
SubstInputStep ==
    /\ pc = "backward"
    /\ LET ids == heap[inputs.id]
           hit == {ids[r] : r \in DOMAIN ids}
       IN  input_tables' =
              [k \in DOMAIN input_tables |->
                  [f \in Frames |->
                      IF f \in hit THEN input_tables[k][f] + 1
                                   ELSE input_tables[k][f]]]
    /\ model' = model + 1 /\ optimizer' = optimizer + 1
    /\ scheduler' = scheduler + 1
    /\ input_params' = input_params + 1
    /\ optimizer_input' = optimizer_input + 1
    /\ scheduler_input' = scheduler_input + 1
    /\ pc' = "step"
    /\ UNCHANGED <<cfgVars, workerVars, loadVars, counterVars, lossVars, training,
                   last_it, outVars, ckpt, startVars, envVars, iters_done,
                   saved_at, evalVars, batchVars>>

SubstNext ==
    \/ SubstForward
    \/ SubstInputStep

FixedIdNext ==
    \/ SubstForward
    \/ FixedIdForward
    \/ SubstInputStep

\* replace_optimizable_inputs on every batch, with and without a fixed_id.
FixedIdSpec == SubstInit /\ [][FixedIdNext]_vars

\* The input substitution of successive training steps, on every choice of
\* flags and batches.
SubstSpec == SubstInit /\ [][SubstNext]_vars

\* ------------------------------------------------------ distributed run

\* accel.process_index of the workers of the run.
Workers == 0..(num_processes - 1)

\* The launcher numbers the workers node by node.
Placements(W) ==
    {p \in [0..(W - 1) -> 0..(W - 1)] :
        /\ p[0] = 0
        /\ \A i \in 1..(W - 1) : p[i] \in {p[i - 1], p[i - 1] + 1}}

\* accel.local_process_index: the worker's rank among those of its node.
local_process_index(w) ==
    Cardinality({v \in Workers : v < w /\ placement[v] = placement[w]})

is_local_main_process(w) == local_process_index(w) = 0

\* lines 80-82: output_dir, checkpoints_dir and tb_logger are assigned inside
\* the local-main branch only; elsewhere the names stay unbound.
BoundSetupNames(w) == is_local_main_process(w)

\* lines 183-186: the expressions that read checkpoints_dir. load_from or ...
\* evaluates its right operand only when load_from is empty.
ResolveReadsCheckpointsDir == load_iteration # None \/ load_from = None

\* InfiniteSampler(dataset, rank, num_replicas, shuffle, seed): the dataset
\* indices the worker of that rank is given, again and again: those of its
\* round-robin share.
InfiniteSampler(size, rank, num_replicas) ==
    {i \in 0..(size - 1) : i % num_replicas = rank}

\* The positions at which a worker waits for all the others: the joining of
\* the process group when the Accelerator is built (line 74), the barrier of
\* line 86, the wrapping of the model (line 224), the gradient
\* synchronisation and loss gather of a step (lines 293, 305) and the gather
\* of the validation sums (line 388).
Collectives == {"init", "barrier", "prepare", "grad_sync", "eval_gather"}

\* A collective that lets a worker through without the others.
CanPassAlone(w) == TRUE

\* A collective completes for w once every worker has entered it.
CanPass(w) ==
    \A v \in Workers :
        \/ barriers[v] > barriers[w]
        \/ barriers[v] = barriers[w] /\ wpc[v] \in Collectives

WorkerFrame ==
    UNCHANGED <<cfgVars, loadVars, pc, counterVars, modelVars, inputVars,
                lossVars, training, last_it, outVars, ckpt, startVars,
                envVars, iters_done, saved_at, evalVars, input_tables,
                batchVars, placement>>

\* lines 74-78: Accelerator(...) joins the process group of the launch, which
\* completes once every worker has joined.
WorkerAccelerator ==
    \E w \in Workers :
        /\ wpc[w] = "init"
        /\ CanPass(w)
        /\ barriers' = [barriers EXCEPT ![w] = @ + 1]
        /\ wpc' = [wpc EXCEPT ![w] = "setup"]
        /\ UNCHANGED <<wit, wtraining, made_dirs, written, setup_barriers,
                       sampler>>
        /\ WorkerFrame

\* lines 79-85
WorkerSetup ==
    \E w \in Workers :
        /\ wpc[w] = "setup"
        /\ made_dirs' = IF is_local_main_process(w)
                        THEN made_dirs \cup {placement[w]} ELSE made_dirs
        /\ setup_barriers' = [setup_barriers EXCEPT ![w] = barriers[w]]
        /\ wpc' = [wpc EXCEPT ![w] = "barrier"]
        /\ UNCHANGED <<wit, wtraining, written, barriers, sampler>>
        /\ WorkerFrame

\* line 86: accel.wait_for_everyone()
WorkerBarrier ==
    \E w \in Workers :
        /\ wpc[w] = "barrier"
        /\ CanPass(w)
        /\ barriers' = [barriers EXCEPT ![w] = @ + 1]
        /\ wpc' = [wpc EXCEPT ![w] = "build"]
        /\ UNCHANGED <<wit, wtraining, made_dirs, written, setup_barriers, sampler>>
        /\ WorkerFrame

\* A build that does not look at the size of the validation set.
ValShardsUnchecked == TRUE

\* line 117
ValShardsEven == val_len % num_processes = 0

\* lines 88-180: datasets, loaders, model and optimizers; the assert of line
\* 117 on the size of the validation set.
WorkerBuild ==
    \E w \in Workers :
        /\ wpc[w] = "build"
        /\ wpc' = [wpc EXCEPT ![w] = IF ValShardsEven
                                     THEN "resolve" ELSE "assert_failed"]
        \* lines 111-112: the rank and world size given to InfiniteSampler
        /\ sampler' = [sampler EXCEPT ![w] =
                          [rank |-> local_process_index(w),
                           num_replicas |-> num_processes]]
        /\ UNCHANGED <<wit, wtraining, made_dirs, written, barriers,
                       setup_barriers>>
        /\ WorkerFrame

\* lines 183-186: a worker that reads the unbound checkpoints_dir raises.
WorkerResolve ==
    \E w \in Workers :
        /\ wpc[w] = "resolve"
        /\ wpc' = [wpc EXCEPT ![w] =
                      IF ResolveReadsCheckpointsDir /\ ~BoundSetupNames(w)
                      THEN "raised" ELSE "restore"]
        /\ UNCHANGED <<wit, wtraining, made_dirs, written, barriers,
                       setup_barriers, sampler>>
        /\ WorkerFrame

\* lines 187-221
WorkerRestore ==
    \E w \in Workers :
        /\ wpc[w] = "restore"
        /\ LET k == ResolveCheckpoint(load_iteration, load_from, ckpt)
               d == Dir(ckpt, k)
           IN  IF k = None
               THEN /\ wit' = [wit EXCEPT ![w] = 0]
                    /\ wpc' = [wpc EXCEPT ![w] = "prepare"]
               ELSE IF RestoreRaises(d, optimize_inputs)
               THEN /\ wpc' = [wpc EXCEPT ![w] = "raised"]
                    /\ UNCHANGED wit
               ELSE /\ wit' = [wit EXCEPT ![w] = d.model_pth.it]
                    /\ wpc' = [wpc EXCEPT ![w] = "prepare"]
        /\ UNCHANGED <<wtraining, made_dirs, written, barriers, setup_barriers, sampler>>
        /\ WorkerFrame

\* lines 224-278: accel.prepare, then model.train().
WorkerPrepare ==
    \E w \in Workers :
        /\ wpc[w] = "prepare"
        /\ CanPass(w)
        /\ barriers' = [barriers EXCEPT ![w] = @ + 1]
        /\ wtraining' = [wtraining EXCEPT ![w] = TRUE]
        /\ wpc' = [wpc EXCEPT ![w] = "forward"]
        /\ UNCHANGED <<wit, made_dirs, written, setup_barriers, sampler>>
        /\ WorkerFrame

\* lines 281-290: the worker's batch goes through the model.
WorkerForward ==
    \E w \in Workers :
        /\ wpc[w] = "forward"
        /\ wpc' = [wpc EXCEPT ![w] = "grad_sync"]
        /\ UNCHANGED <<wit, wtraining, made_dirs, written, barriers,
                       setup_barriers, sampler>>
        /\ WorkerFrame

\* lines 293-311: backward, the optimizer steps and the gather of the losses.
WorkerGradSync ==
    \E w \in Workers :
        /\ wpc[w] = "grad_sync"
        /\ CanPass(w)
        /\ barriers' = [barriers EXCEPT ![w] = @ + 1]
        /\ wpc' = [wpc EXCEPT ![w] = "periodic"]
        /\ UNCHANGED <<wit, wtraining, made_dirs, written, setup_barriers, sampler>>
        /\ WorkerFrame

\* The workers that have written iter_<k>.
Writers(k) == IF k \in DOMAIN written THEN written[k] ELSE {}

\* lines 313-363: logging and checkpoint saving, both behind
\* accel.is_local_main_process.
WorkerPeriodic ==
    \E w \in Workers :
        /\ wpc[w] = "periodic"
        /\ written' = IF SaveDue(wit[w]) /\ is_local_main_process(w)
                      THEN (wit[w] :> (Writers(wit[w]) \cup {w})) @@ written
                      ELSE written
        /\ wpc' = [wpc EXCEPT ![w] = "eval"]
        /\ UNCHANGED <<wit, wtraining, made_dirs, barriers, setup_barriers, sampler>>
        /\ WorkerFrame

\* lines 366-384: model.eval() and the worker's validation batches; line 384
\* reads output_dir for every batch.
WorkerEval ==
    \E w \in Workers :
        /\ wpc[w] = "eval"
        /\ IF EvalDue(wit[w])
           THEN /\ wtraining' = [wtraining EXCEPT ![w] = FALSE]
                /\ wpc' = [wpc EXCEPT ![w] = IF BoundSetupNames(w)
                                             THEN "eval_gather" ELSE "raised"]
           ELSE /\ wpc' = [wpc EXCEPT ![w] = "incr"]
                /\ UNCHANGED wtraining
        /\ UNCHANGED <<wit, made_dirs, written, barriers, setup_barriers, sampler>>
        /\ WorkerFrame

\* lines 386-411: the gather, the means on the local main, model.train().
WorkerEvalGather ==
    \E w \in Workers :
        /\ wpc[w] = "eval_gather"
        /\ CanPass(w)
        /\ barriers' = [barriers EXCEPT ![w] = @ + 1]
        /\ wtraining' = [wtraining EXCEPT ![w] = TRUE]
        /\ wpc' = [wpc EXCEPT ![w] = "incr"]
        /\ UNCHANGED <<wit, made_dirs, written, setup_barriers, sampler>>
        /\ WorkerFrame

\* lines 413-416
WorkerIncr ==
    \E w \in Workers :
        /\ wpc[w] = "incr"
        /\ wit' = [wit EXCEPT ![w] = NextIt(@)]
        /\ wpc' = [wpc EXCEPT ![w] = IF BudgetExceeded(NextIt(wit[w]))
                                     THEN "terminated" ELSE "forward"]
        /\ UNCHANGED <<wtraining, made_dirs, written, barriers, setup_barriers, sampler>>
        /\ WorkerFrame

\* A checkpoint directory as an earlier run left it.
SavedDir(k) ==
    [model_pth |-> ModelFile(k, k, k + 1),
     optimizer_pth |-> OptimFile(k + 1, k + 1),
     input_pth |-> AbsentFile,
     optimizer_input_pth |-> AbsentFile]

WorkerInit ==
    /\ iterations \in 0..WorkerIter
    /\ save_it \in 1..WorkerInterval
    /\ eval_it \in 1..WorkerInterval
    /\ log_it = 1 /\ show_it = 1 /\ avg_loss_it = 1
    /\ batch_size = 1
    /\ num_processes \in 1..MaxWorkers
    /\ val_len \in 0..num_processes
    /\ OptimizeFlags(FALSE, FALSE, FALSE, FALSE)
    /\ ckpt \in {<<>>, (0 :> SavedDir(0))}
    /\ \E c \in LoadChoices(ckpt) :
          /\ load_iteration = c.li
          /\ load_from = c.lf
    /\ ProcessBuilt
    /\ runs = 1 /\ faults = 0 /\ saved_at = <<>>
    /\ val_loss_dict = <<>> /\ val_batches = <<>>
    /\ input_tables = <<>>
    /\ NoBatch
    /\ placement \in Placements(num_processes)
    /\ wpc = [w \in Workers |-> "init"]
    /\ wit = [w \in Workers |-> None]
    /\ wtraining = [w \in Workers |-> TRUE]
    /\ made_dirs = {}
    /\ written = <<>>
    /\ barriers = [w \in Workers |-> 0]
    /\ setup_barriers = [w \in Workers |-> None]
    /\ sampler = [w \in Workers |-> [rank |-> None, num_replicas |-> None]]

WorkerNext ==
    \/ WorkerAccelerator
    \/ WorkerSetup
    \/ WorkerBarrier
    \/ WorkerBuild
    \/ WorkerResolve
    \/ WorkerRestore
    \/ WorkerPrepare
    \/ WorkerForward
    \/ WorkerGradSync
    \/ WorkerPeriodic
    \/ WorkerEval
    \/ WorkerEvalGather
    \/ WorkerIncr

\* The workers of one launch of training_loop, on every placement.
WorkerSpec == WorkerInit /\ [][WorkerNext]_vars

\* ------------------------------------------- resume under another budget

\* The checkpoints directory as an earlier run, started with any budget, may
\* have left it: empty, or with a latest iter_<k> whose optimizer file may
\* be lost.
LeftoverDirs ==
    {<<>>} \cup
    UNION {{(k :> SavedDir(k)),
            (k :> [SavedDir(k) EXCEPT !.optimizer_pth = AbsentFile])}
              : k \in 0..MaxLeftIt}

LeftoverInit ==
    /\ iterations \in 0..LeftIter
    /\ save_it \in 1..LeftInterval
    /\ eval_it \in 1..LeftInterval
    /\ log_it = 1 /\ show_it = 1 /\ avg_loss_it = 1
    /\ batch_size = 1 /\ num_processes = 1
    /\ val_len \in {0, 1}
    /\ OptimizeFlags(FALSE, FALSE, FALSE, FALSE)
    /\ load_iteration = None /\ load_from = None
    /\ ProcessBuilt
    /\ ckpt \in LeftoverDirs
    /\ runs = 1 /\ faults = 0 /\ saved_at = <<>>
    /\ val_loss_dict = <<>> /\ val_batches = <<>>
    /\ input_tables = <<>>
    /\ NoBatch
    /\ NoWorkers

LeftoverNext ==
    \/ RunNext
    \/ ResumeAbort
    \/ ResumeLoad

\* One run of training_loop on a directory whose latest checkpoint was
\* written under a budget that need not be this run's.
LeftoverSpec == LeftoverInit /\ [][LeftoverNext]_vars

\* ------------------------------------------------------------- properties

\* The state an uninterrupted run started on an empty directory has applied
\* when it reaches it = j: j loop bodies from the constructed state.
RECURSIVE UninterruptedAt(_)
UninterruptedAt(j) ==
    IF j = 0 THEN FreshTrainable
    ELSE OptimStep(UninterruptedAt(j - 1), optimize_inputs)

\* The run is at the top of its loop or has left it.
AtLoopBoundary == pc \in {"step", "terminated"}

\* The run resumed from a checkpoint and has not consumed a batch yet.
JustResumed == pc = "step" /\ iters_done = 0 /\ last_ckpt_dir # None

\* C1: a run that resumes from checkpoint iter_k starts its training loop
\* with it = k and with sample_count equal to the value it had when that
\* checkpoint was written.
C1_CounterRoundTrip ==
    JustResumed =>
        /\ last_ckpt_dir \in DOMAIN saved_at
        /\ it = last_ckpt_dir
        /\ it = saved_at[last_ckpt_dir].it
        /\ sample_count = saved_at[last_ckpt_dir].sample_count

C1_Witness ==
    /\ JustResumed
    /\ last_ckpt_dir = 1
    /\ sample_count = 2

\* C2: a run interrupted after saving iter_k and resumed from it has, at every
\* later it = j, applied as many optimizer and scheduler steps (and input
\* optimizer and scheduler steps) as an uninterrupted run has at it = j.
C2_ExactResume ==
    (/\ AtLoopBoundary
     /\ runs = 2 /\ faults = 0
     /\ last_ckpt_dir # None
     /\ it > last_ckpt_dir)
    => LET u == UninterruptedAt(it)
       IN  /\ optimizer = u.optimizer
           /\ scheduler = u.scheduler
           /\ optimizer_input = u.optimizer_input
           /\ scheduler_input = u.scheduler_input

\* C3: with input optimization enabled, a checkpoint whose model and
\* optimizer files are valid and whose input-store file is absent or corrupt
\* is resumed without raising, with the input store as freshly initialized
\* and training starting from the checkpoint's iteration.
C3_DegradedResume ==
    (/\ pc # "start"
     /\ optimize_inputs
     /\ last_ckpt_dir # None
     /\ seen.model_pth = "ok"
     /\ seen.optimizer_pth = "ok"
     /\ seen.input_pth \in {"absent", "corrupt"})
    => /\ pc # "aborted"
       /\ JustResumed => input_params = 0 /\ it = last_ckpt_dir

\* C4: when the resolved checkpoint's optimizer/scheduler file is missing or
\* corrupt the run aborts before any training step; it never enters the
\* training loop.
C4_FatalResume ==
    (/\ pc # "start"
     /\ last_ckpt_dir # None
     /\ seen.optimizer_pth # "ok")
    => pc = "aborted" /\ iters_done = 0

C4_Witness ==
    /\ pc = "aborted"
    /\ seen.model_pth = "ok"
    /\ seen.optimizer_pth = "corrupt"

\* C5: a run started without a checkpoint eventually terminates, and it
\* terminates with it = iterations + 1.
C5_Termination ==
    /\ <>(pc = "terminated")
    /\ [](pc = "terminated" => it = iterations + 1)

C5_Witness ==
    /\ pc = "terminated"
    /\ iterations = 10
    /\ it = 11
    /\ iters_done = 11

\* C6 (as stated): with budget 10, save interval 5 and eval interval 5 a
\* single-worker run started without a checkpoint ends with exactly two
\* checkpoint directories.
C6_TwoCheckpointDirs ==
    (/\ pc = "terminated"
     /\ iterations = 10 /\ save_it = 5 /\ eval_it = 5
     /\ num_processes = 1)
    => Cardinality(DOMAIN ckpt) = 2

\* C6 (amended): that run ends with exactly three checkpoint directories,
\* iter_0, iter_5 and iter_10.
C6_ThreeCheckpointDirs ==
    (/\ pc = "terminated"
     /\ iterations = 10 /\ save_it = 5 /\ eval_it = 5
     /\ num_processes = 1)
    => /\ DOMAIN ckpt = {0, 5, 10}
       /\ Cardinality(DOMAIN ckpt) = 3

C6_Witness ==
    /\ pc = "terminated"
    /\ iterations = 10 /\ save_it = 5 /\ eval_it = 5
    /\ num_processes = 1
    /\ it = 11
    /\ 10 \in DOMAIN ckpt

\* C7: after replace_optimizable_inputs, for each enabled flag among
\* expression, pose and camera, targets holds under that key (expression,
\* pose, extrinsic) the value the dataset supplied for the batch, and inputs
\* holds under it the input store's current value for the batch's frame ids.
C7_TargetsKeepGroundTruth ==
    pc = "backward" =>
        LET ids == dataset_batch.id
        IN  /\ optimize_expression =>
                  /\ heap[targets.expression] = dataset_batch.expression
                  /\ heap[inputs.expression] =
                        Lookup(input_tables.expression, ids)
            /\ optimize_pose =>
                  /\ heap[targets.pose] = dataset_batch.pose
                  /\ heap[inputs.pose] = Lookup(input_tables.pose, ids)
            /\ optimize_camera =>
                  /\ heap[targets.extrinsic] = dataset_batch.extrinsic
                  /\ [r \in DOMAIN ids |-> heap[inputs.extrinsic][r].trans] =
                        Lookup(input_tables.cam_trans, ids)

\* C10: it advances by exactly 1 and sample_count by batch_size * world_size
\* once per consumed batch and by nothing else; at every loop boundary
\* sample_count = (it - it_at_start) * batch_size * world_size
\*                + restored_sample_count; neither counter decreases.
CountersStep ==
    \/ pc' = "start"
    \/ pc = "start"
    \/ it' = it /\ sample_count' = sample_count
    \/ /\ pc = "incr"
       /\ it' = it + 1
       /\ sample_count' = sample_count + batch_size * num_processes

C10_Counters ==
    /\ [](AtLoopBoundary =>
            /\ it - it_at_start = iters_done
            /\ sample_count = (it - it_at_start) * batch_size * num_processes
                              + restored_sample_count)
    /\ [](pc = "start" => it = 0 /\ sample_count = 0)
    /\ [][CountersStep]_vars

C10_Witness ==
    /\ pc = "step"
    /\ last_ckpt_dir # None
    /\ restored_sample_count > 0
    /\ it > it_at_start
    /\ num_processes = 2

\* The last n values of a sequence.
LastN(q, n) == SubSeq(q, Len(q) - n + 1, Len(q))

Min(a, b) == IF a <= b THEN a ELSE b

\* C8: a term's window never holds more than C = avg_loss_it values, and the
\* value reported after the m-th push is the arithmetic mean of the last
\* min(m, C) pushed values.
C8_RunningAverageWindow ==
    /\ DOMAIN avg_loss_dict = DOMAIN pushed
    /\ \A k \in DOMAIN pushed :
          LET m == Len(pushed[k])
              n == Min(m, avg_loss_it)
          IN  /\ Len(avg_loss_dict[k]) <= avg_loss_it
              /\ avg_loss_dict[k] = LastN(pushed[k], n)
              /\ k \in DOMAIN loss_dict
              /\ loss_dict[k].num = SumSeq(LastN(pushed[k], n))
              /\ loss_dict[k].den = n

C8_Witness ==
    /\ "loss_rgb" \in DOMAIN pushed
    /\ Len(pushed["loss"]) = 4
    /\ avg_loss_it = 2
    /\ pushed["loss"] = <<1, 0, 0, 1>>
    /\ loss_dict["loss"] = [num |-> 1, den |-> 2]
    /\ Len(pushed["loss_rgb"]) = 1

\* The sum of f[w] over the workers 1..n.
RECURSIVE SumOver(_, _)
SumOver(f, n) == IF n = 0 THEN 0 ELSE f[n] + SumOver(f, n - 1)

\* The batches of the workers 1..n, concatenated.
RECURSIVE Concatenated(_, _)
Concatenated(b, n) == IF n = 0 THEN <<>> ELSE Concatenated(b, n - 1) \o b[n]

\* The sum of term k over a sequence of loss dicts.
RECURSIVE TermSum(_, _)
TermSum(batches, k) ==
    IF batches = <<>> THEN 0
    ELSE Head(batches)[k] + TermSum(Tail(batches), k)

\* C9: the validation mean logged for each term is the sum over the workers
\* of s_w divided by the sum over the workers of n_w, which is the mean of
\* the term over the concatenated batches of all workers.
C9_EvaluationAggregation ==
    pc = "incr" =>
        LET logged == tb_validation[it]
            all == Concatenated(val_batches, num_processes)
        IN  \A k \in {"loss", "loss_rgb"} :
               /\ k \in DOMAIN logged
               /\ logged[k].num =
                     SumOver([w \in 1..num_processes |->
                                 val_loss_dict[w].sums[k]], num_processes)
               /\ logged[k].den =
                     SumOver([w \in 1..num_processes |->
                                 val_loss_dict[w].num_batches], num_processes)
               /\ logged[k].num = TermSum(all, k)
               /\ logged[k].den = Len(all)

C9_Witness ==
    /\ pc = "incr"
    /\ num_processes = 2
    /\ val_len = 4
    /\ val_loss_dict[1].sums["loss"] = 3
    /\ val_loss_dict[2].sums["loss"] = 2
    /\ tb_validation[it]["loss"] = [num |-> 5, den |-> 4]

\* The positions of a worker that has left training_loop, by an exception or
\* by the break of line 416.
Gone == {"raised", "assert_failed", "terminated"}

\* The positions of the training loop.
WorkerLoopPcs == {"forward", "grad_sync", "periodic", "eval", "eval_gather",
                  "incr"}

\* A launch whose configuration is valid: the validation set divides among
\* the workers and the checkpoint to resume from, if any, is readable.
ValidLaunch ==
    /\ val_len % num_processes = 0
    /\ LET k == ResolveCheckpoint(load_iteration, load_from, ckpt)
       IN  k # None => ~RestoreRaises(Dir(ckpt, k), optimize_inputs)

\* Worker w waits at a collective that worker v, having left, never enters.
BlockedForever(w, v) ==
    /\ wpc[w] \in Collectives
    /\ wpc[v] \in Gone
    /\ barriers[v] <= barriers[w]

\* C11: with W >= 2 workers every worker completes initialization, the
\* workers are at the same place of the training loop with the same it
\* whenever they have passed the same collectives, and no worker waits at a
\* collective that another worker never reaches.
C11_LockStep ==
    (num_processes >= 2 /\ ValidLaunch)
    => /\ \A w \in Workers : wpc[w] # "raised"
       /\ \A w, v \in Workers :
             (/\ wpc[w] \in WorkerLoopPcs /\ wpc[v] = wpc[w]
              /\ barriers[w] = barriers[v])
             => wit[w] = wit[v]
       /\ \A w, v \in Workers : ~BlockedForever(w, v)

\* C12: on every placement, an iteration whose checkpoint is saved has
\* exactly one worker of the run writing iter_<it>.
C12_SingleCheckpointWriter ==
    \A k \in DOMAIN written : Cardinality(written[k]) = 1

\* C13: when the validation set size is not a multiple of the worker count
\* the run fails at startup: no worker restores a checkpoint, enters the
\* training loop or writes a checkpoint.
C13_ValShardPrecondition ==
    val_len % num_processes # 0
    => /\ \A w \in Workers :
             /\ wpc[w] \in {"init", "setup", "barrier", "build",
                          "assert_failed"}
             /\ wit[w] = None
       /\ written = <<>>

C13_Witness ==
    /\ val_len % num_processes # 0
    /\ ckpt # <<>>
    /\ \A w \in Workers : wpc[w] = "assert_failed"

\* The indices the train loader of worker w draws from.
TrainIndices(w) ==
    InfiniteSampler(NumFrames, sampler[w].rank, sampler[w].num_replicas)

\* C14: on every placement, the index sequences configured for two different
\* workers are disjoint, and together the workers' sequences partition the
\* dataset indices.
C14_SamplingPartition ==
    (\A w \in Workers : sampler[w].rank # None)
    => /\ \A w, v \in Workers :
             w # v => TrainIndices(w) \cap TrainIndices(v) = {}
       /\ UNION {TrainIndices(w) : w \in Workers} = 0..(NumFrames - 1)

\* The last iteration whose logging, saving and evaluation decisions have
\* been taken, by the position in the loop body.
LoggedThrough ==
    IF pc \in {"save", "eval", "evaluating", "incr"} THEN it ELSE it - 1

SavedThrough == IF pc \in {"eval", "evaluating", "incr"} THEN it ELSE it - 1

EvaluatedThrough == IF pc = "incr" THEN it ELSE it - 1

\* C15: at every executed iteration j the metrics are logged iff
\* j % log_it = 0, the console line is printed iff j % show_it = 0, iter_<j>
\* is saved (recording it = j, the value before the increment) iff
\* j % save_it = 0, and evaluation runs iff j % eval_it = 0 and the
\* validation set is non-empty; a finished fresh run with budget I has saved
\* exactly the iter_k with k in 0..I and k % save_it = 0.
C15_PeriodicActions ==
    /\ \A j \in 0..LoggedThrough :
          /\ j \in tb_train <=> j % log_it = 0
          /\ j \in shown <=> j % show_it = 0
    /\ \A j \in 0..SavedThrough :
          /\ j \in DOMAIN ckpt <=> j % save_it = 0
          /\ j \in DOMAIN ckpt => ckpt[j].model_pth.it = j
    /\ \A j \in 0..EvaluatedThrough :
          j \in DOMAIN tb_validation <=> (j % eval_it = 0 /\ val_len > 0)
    /\ tb_train \subseteq 0..LoggedThrough
    /\ shown \subseteq 0..LoggedThrough
    /\ DOMAIN ckpt \subseteq 0..SavedThrough
    /\ DOMAIN tb_validation \subseteq 0..EvaluatedThrough
    /\ pc = "terminated"
       => DOMAIN ckpt = {k \in 0..iterations : k % save_it = 0}

\* All four fire on one iteration, after iterations on which only some did.
C15_Witness ==
    /\ pc = "incr" /\ it = 6
    /\ log_it = 2 /\ show_it = 1 /\ save_it = 3 /\ eval_it = 2
    /\ it \in tb_train /\ it \in shown
    /\ it \in DOMAIN ckpt /\ it \in DOMAIN tb_validation
    /\ 3 \in DOMAIN ckpt /\ 3 \notin tb_train /\ 3 \notin DOMAIN tb_validation
    /\ 4 \in DOMAIN tb_validation /\ 4 \notin DOMAIN ckpt

\* The ids C16 expects the lookup to use: fixed_id on every row when one was
\* passed, the batch's own ids otherwise.
ExpectedIds ==
    IF fixed_id_arg # None
    THEN [r \in DOMAIN dataset_batch.id |-> fixed_id_arg]
    ELSE dataset_batch.id

\* C16: for every frame id f passed as fixed_id, f = 0 included, every row of
\* the batch is substituted with the input store's value for f; the batch's
\* own ids are used only when no fixed_id is passed.
C16_FixedIdOverride ==
    pc = "backward" =>
        /\ optimize_latent =>
              heap[inputs.frame_latent] =
                 Lookup(input_tables.frame_latent, ExpectedIds)
        /\ optimize_expression =>
              heap[inputs.expression] =
                 Lookup(input_tables.expression, ExpectedIds)
        /\ optimize_pose =>
              heap[inputs.pose] = Lookup(input_tables.pose, ExpectedIds)
        /\ optimize_camera =>
              [r \in DOMAIN ExpectedIds |-> heap[inputs.extrinsic][r].trans]
                 = Lookup(input_tables.cam_trans, ExpectedIds)

\* C17: with input optimization enabled, a checkpoint whose input-store
\* weights restore and whose input optimizer/scheduler file is missing or
\* does not fit is resumed without aborting, keeps the restored input-store
\* weights, and reports an input-optimizer failure, not the input-store one.
C17_InputOptimizerDegradation ==
    (/\ pc # "start"
     /\ optimize_inputs
     /\ last_ckpt_dir # None
     /\ seen.model_pth = "ok"
     /\ seen.optimizer_pth = "ok"
     /\ seen.input_pth = "ok"
     /\ seen.optimizer_input_pth # "ok")
    => /\ pc # "aborted"
       /\ JustResumed =>
             /\ input_params = ckpt[last_ckpt_dir].input_pth.a
             /\ "mismatched_optim_input" \in printed
             /\ "mismatched_input" \notin printed

\* C18: the model (and the input store) is in training mode at every training
\* step and through the rest of the loop body, in inference mode while the
\* validation batches are run, and back in training mode once an evaluation
\* has finished, before the next training step.
C18_ModeDiscipline ==
    /\ pc \in {"step", "log", "save", "eval", "incr"} => training
    /\ pc = "evaluating" => ~training

C18_Witness ==
    /\ pc = "step" /\ it = 1
    /\ 0 \in DOMAIN tb_validation
    /\ last_ckpt_dir # None
    /\ training

\* The positions before the barrier of line 86 has let the worker through.
StartupPcs == {"init", "setup", "barrier"}

EvaluationStep ==
    \/ pc = "eval" /\ pc' = "evaluating"
    \/ pc = "evaluating" /\ pc' = "incr"

\* C20: an evaluation pass leaves it, sample_count, the model parameters,
\* both optimizers' and schedulers' states, the input-store parameters and
\* every running-average window unchanged (as it does last_it and the
\* checkpoints), and ends with the mode back to training.
EvaluationFrame ==
    EvaluationStep
    => /\ UNCHANGED <<it, sample_count>>
       /\ UNCHANGED <<model, optimizer, scheduler>>
       /\ UNCHANGED <<input_params, optimizer_input, scheduler_input>>
       /\ UNCHANGED <<avg_loss_dict, pushed>>
       /\ UNCHANGED <<last_it, ckpt, iters_done>>
       /\ pc' = "incr" => training'

C20_EvaluationFrame == [][EvaluationFrame]_vars

C20_Witness ==
    /\ pc = "incr" /\ it = 2
    /\ it \in DOMAIN tb_validation
    /\ optimize_inputs
    /\ input_params > 0
    /\ DOMAIN avg_loss_dict # {}
    /\ training

\* The positions of the loop body after the training step of iteration it.
AfterStepPcs == {"log", "save", "eval", "evaluating", "incr"}

\* C21: no training step, checkpoint save or evaluation is executed while
\* it > iterations; a run resumed from a checkpoint whose it exceeds the
\* budget ends without a training step and without writing a checkpoint.
C21_BudgetNeverExceeded ==
    /\ pc \in AfterStepPcs => it <= iterations
    /\ \A k \in DOMAIN saved_at : k <= iterations
    /\ \A k \in DOMAIN tb_validation : k <= iterations
    /\ (/\ pc \notin {"start", "aborted"}
        /\ last_ckpt_dir # None
        /\ it_at_start > iterations)
       => /\ iters_done = 0
          /\ saved_at = <<>>

====
